---------------------------- MODULE Spec2Model ----------------------------
(***************************************************************************)
(* A model of myparserlib: the priority-ordered regex tokenizer            *)
(* (lexer.py) and the parser-combinator core (parser.py).                  *)
(*                                                                         *)
(* The tokenizer is a state machine over the generator f of                *)
(* make_tokenizer: one action per loop iteration.  The combinators are     *)
(* pure functions (tokens, state) -> result and are modelled as operators  *)
(* that compute what the closures _some, _add, _or, _many, ... compute;    *)
(* the actions of the parser specification call them the way run(),        *)
(* parse() and define() do.                                                *)
(***************************************************************************)
EXTENDS Integers, Sequences, FiniteSets, TLC

VARIABLES
    string,     \* lexer: the text handed to f(string)
    specs,      \* lexer: the compiled spec list
    i,          \* lexer: f's cursor index (0-based)
    line,       \* lexer: f's current line (1-based)
    pos,        \* lexer: f's current column (0-based)
    out,        \* lexer: the tokens yielded so far, in order
    lpc,        \* lexer: "scan" | "done" | "raised"
    lerr,       \* lexer: the exception that ended the scan, or NoError
    tokens,     \* parser: the token sequence being parsed
    grammar,    \* parser: the parser object under test
    binding,    \* parser: what the forward declaration is define()d to
    outcome     \* parser: the result of the last run()/parse() call

lexvars == <<string, specs, i, line, pos, out, lpc, lerr>>
parvars == <<tokens, grammar, binding, outcome>>
vars == <<string, specs, i, line, pos, out, lpc, lerr,
          tokens, grammar, binding, outcome>>

(***************************************************************************)
(* Bounds of the model.                                                    *)
(***************************************************************************)
MaxText == 3      \* longest input text, in characters
MaxSpecs == 2     \* longest spec list
MaxTokens == 4    \* most tokens the generator is asked for
MaxLen == 3       \* longest token sequence handed to a parser
MaxChain == 3     \* longest chain p1 + p2 + ... + pn

(***************************************************************************)
(*                              THE LEXER                                  *)
(***************************************************************************)
NL == "\n"
Chars == {"a", "1", " ", NL}

\* The regular expressions of the model, each as what re.match does with it:
\* a character class, a least number of repetitions and whether the
\* repetition is unbounded (greedy).
\*   NUM  \d+     WS  \s+     ID  a+     OPT  a*     EOL  \n
Patterns ==
    { [type |-> "NUM", cls |-> {"1"},     lo |-> 1, rep |-> TRUE],
      [type |-> "WS",  cls |-> {" ", NL}, lo |-> 1, rep |-> TRUE],
      [type |-> "ID",  cls |-> {"a"},     lo |-> 1, rep |-> TRUE],
      [type |-> "OPT", cls |-> {"a"},     lo |-> 0, rep |-> TRUE],
      [type |-> "EOL", cls |-> {NL},      lo |-> 1, rep |-> FALSE] }

RECURSIVE Texts(_)
Texts(n) ==
    IF n = 0 THEN {<<>>}
    ELSE LET shorter == Texts(n - 1)
         IN  shorter \cup {Append(t, c) : t \in shorter, c \in Chars}

Distinct(s) == \A j, k \in DOMAIN s : j # k => s[j] # s[k]

SpecLists ==
    {s \in UNION {[1..n -> Patterns] : n \in 1..MaxSpecs} : Distinct(s)}

NoError == [kind |-> "none", place |-> <<0, 0>>, msg |-> <<>>]
NoMatch == [type |-> "", value |-> <<>>, start |-> <<0, 0>>, end |-> <<0, 0>>]

\* The length of the longest run of characters of cls in str from the
\* 1-based index k on.
RECURSIVE RunLen(_, _, _)
RunLen(cls, str, k) ==
    IF k > Len(str) \/ str[k] \notin cls THEN 0
    ELSE 1 + RunLen(cls, str, k + 1)

\* regexp.match(string, i): the length of the match at the 0-based index
\* idx, or -1 for None.
match(regexp, str, idx) ==
    LET run == RunLen(regexp.cls, str, idx + 1)
        n == IF regexp.rep \/ run = 0 THEN run ELSE 1
    IN  IF n >= regexp.lo THEN n ELSE -1

\* value.count(ch)
RECURSIVE count(_, _)
count(value, ch) ==
    IF value = <<>> THEN 0
    ELSE (IF Head(value) = ch THEN 1 ELSE 0) + count(Tail(value), ch)

\* value.rfind(ch): the 0-based index of the last ch, or -1.
rfind(value, ch) ==
    LET at == {k \in DOMAIN value : value[k] = ch}
    IN  IF at = {} THEN -1
        ELSE (CHOOSE k \in at : \A m \in at : m <= k) - 1

\* Token(token_type, value, (line, pos + 1), (n_line, n_pos))
Token(type, value, start, end) ==
    [type |-> type, value |-> value, start |-> start, end |-> end]

\* matched, with the column carried across a line break instead of reset.
matched_no_reset(token_type, value, position) ==
    Token(token_type, value, <<position[1], position[2] + 1>>,
          <<position[1] + count(value, NL), position[2] + Len(value)>>)

\* The body of the for loop of match_specs for one matching spec.
matched(token_type, value, position) ==
    LET nls == count(value, NL)
        n_line == position[1] + nls
        n_pos == IF nls = 0 THEN position[2] + Len(value)
                 ELSE Len(value) - rfind(value, NL) - 1
    IN  Token(token_type, value, <<position[1], position[2] + 1>>,
              <<n_line, n_pos>>)

\* match_specs(specs, string, i, position): the token of the first spec,
\* in declaration order, that matches at i; NoMatch when the for loop ends
\* without a match (its else branch).
RECURSIVE match_from(_, _, _, _, _)
match_from(k, ss, str, idx, position) ==
    IF k > Len(ss) THEN NoMatch
    ELSE LET n == match(ss[k], str, idx)
         IN  IF n >= 0
             THEN matched(ss[k].type, SubSeq(str, idx + 1, idx + n), position)
             ELSE match_from(k + 1, ss, str, idx, position)

match_specs(ss, str, idx, position) == match_from(1, ss, str, idx, position)

\* The else branch of match_specs: `str.splitlines()` names the builtin
\* type, not the text, so evaluating it raises TypeError before LexerError
\* is constructed.
no_match_error(str, position) ==
    [kind |-> "TypeError", place |-> <<0, 0>>, msg |-> <<>>]

ParIdle ==
    /\ tokens = <<>>
    /\ grammar = <<"idle">>
    /\ binding = <<"idle">>
    /\ outcome = <<"idle">>

LexInit ==
    /\ string \in Texts(MaxText)
    /\ specs \in SpecLists
    /\ i = 0
    /\ line = 1
    /\ pos = 0
    /\ out = <<>>
    /\ lpc = "scan"
    /\ lerr = NoError
    /\ ParIdle

\* One iteration of f's while loop in which a spec matches: the token is
\* yielded and the cursor moved.
LexYield ==
    /\ lpc = "scan"
    /\ i < Len(string)
    /\ Len(out) < MaxTokens
    /\ LET t == match_specs(specs, string, i, <<line, pos>>)
       IN  /\ t # NoMatch
           /\ out' = Append(out, t)
           /\ line' = t.end[1]
           /\ pos' = t.end[2]
           /\ i' = i + Len(t.value)
    /\ UNCHANGED <<string, specs, lpc, lerr, tokens, grammar, binding, outcome>>

\* One iteration in which no spec matches: match_specs raises.
LexRaise ==
    /\ lpc = "scan"
    /\ i < Len(string)
    /\ match_specs(specs, string, i, <<line, pos>>) = NoMatch
    /\ lpc' = "raised"
    /\ lerr' = no_match_error(string, <<line, pos>>)
    /\ UNCHANGED <<string, specs, i, line, pos, out, tokens, grammar, binding, outcome>>

\* The while condition fails: the generator is exhausted.
LexDone ==
    /\ lpc = "scan"
    /\ i >= Len(string)
    /\ lpc' = "done"
    /\ UNCHANGED <<string, specs, i, line, pos, out, lerr, tokens, grammar, binding, outcome>>

LexNext == LexYield \/ LexRaise \/ LexDone

SpecLexer == LexInit /\ [][LexNext]_vars


(***************************************************************************)
(*                        THE PARSER COMBINATORS                           *)
(***************************************************************************)
Tok == {<<"tok", "x">>, <<"tok", "y">>}
EOF == <<"<EOF>">>

RECURSIVE TokenSeqs(_)
TokenSeqs(n) ==
    IF n = 0 THEN {<<>>}
    ELSE LET shorter == TokenSeqs(n - 1)
         IN  shorter \cup {Append(t, c) : t \in shorter, c \in Tok}

Max(a, b) == IF a >= b THEN a ELSE b

\* class State
State(p, m) == [pos |-> p, max |-> m]

\* The values parsers return, each tagged with its Python type.
None == <<"None">>
_Tuple(vs) == <<"_Tuple", vs>>
_Ignored(value) == <<"_Ignored", value>>
list(vs) == <<"list", vs>>
isinstance(v, cls) == v[1] = cls

\* The outcome of one run: a returned (value, state) or a raised
\* exception.  log is the sequence of the calls made and of how each
\* ended, in order: <<"run" | "ok" | "raise", parser, state>>.
Ok(v, s, log) == [k |-> "ok", v |-> v, s |-> s, msg |-> <<>>, log |-> log]
NoParseError(msg, s, log) ==
    [k |-> "NoParseError", v |-> None, s |-> s, msg |-> <<msg>>, log |-> log]
Raise(exc, s, log) == [k |-> exc, v |-> None, s |-> s, msg |-> <<>>, log |-> log]

\* The parser objects: what each constructor builds.
some(pred) == <<"some", pred>>
a(value) == some({value})
pure(x) == <<"pure", x>>
finished == <<"finished">>
add(self, other) == <<"add", self, other>>
or(self, other) == <<"or", self, other>>
rshift(self, f) == <<"rshift", self, f>>
bind(self, f) == <<"bind", self, f>>
many(p) == <<"many", p>>
oneplus(p) == <<"oneplus", p>>
maybe(p) == or(p, pure(None))
skip(p) == rshift(p, "_Ignored")
forward_decl == <<"forward_decl">>

\* The body of a forward declaration that define() has not replaced.
Undefined == <<"undefined">>

\* The functions handed to >> and to bind.
apply(f, v) ==
    CASE f = "_Ignored" -> _Ignored(v)
      [] f = "singleton" -> list(<<v>>)
      [] f = "a" -> a(v)

\* magic, always pairing two values.
magic_pairs(v1, v2) ==
    LET vs == SelectSeq(<<v1, v2>>, LAMBDA v : ~isinstance(v, "_Ignored"))
    IN  IF Len(vs) = 1 THEN vs[1]
        ELSE IF Len(vs) = 2 THEN _Tuple(vs)
        ELSE _Ignored(<<>>)

\* Parser.__add__.magic
magic(v1, v2) ==
    LET vs == SelectSeq(<<v1, v2>>, LAMBDA v : ~isinstance(v, "_Ignored"))
    IN  IF Len(vs) = 1 THEN vs[1]
        ELSE IF Len(vs) = 2
             THEN IF isinstance(vs[1], "_Tuple")
                  THEN _Tuple(Append(v1[2], v2))
                  ELSE _Tuple(vs)
             ELSE _Ignored(<<>>)

\* _some, taking the new position for max.
_some_max_is_pos(pred, toks, s) ==
    IF s.pos >= Len(toks)
    THEN NoParseError("no tokens left in the stream", s, <<>>)
    ELSE LET t == toks[s.pos + 1]
         IN  IF t \in pred
             THEN Ok(t, State(s.pos + 1, s.pos + 1), <<>>)
             ELSE NoParseError("got unexpected token", s, <<>>)

\* some._some
_some(pred, toks, s) ==
    IF s.pos >= Len(toks)
    THEN NoParseError("no tokens left in the stream", s, <<>>)
    ELSE LET t == toks[s.pos + 1]
         IN  IF t \in pred
             THEN LET p == s.pos + 1
                      s2 == State(p, Max(p, s.max))
                  IN  Ok(t, s2, <<>>)
             ELSE NoParseError("got unexpected token", s, <<>>)

\* finished
_finished(toks, s) ==
    IF s.pos >= Len(toks) THEN Ok(None, s, <<>>)
    ELSE NoParseError("should have reached <EOF>", s, <<>>)

\* pure._pure
_pure(x, s) == Ok(x, s, <<>>)

RECURSIVE run(_, _, _, _)

\* Parser.__add__._add
_add(self, other, toks, s, active) ==
    LET r1 == run(self, toks, s, active)
    IN  IF r1.k # "ok" THEN r1
        ELSE LET r2 == run(other, toks, r1.s, active)
             IN  IF r2.k # "ok" THEN [r2 EXCEPT !.log = r1.log \o r2.log]
                 ELSE Ok(magic(r1.v, r2.v), r2.s, r1.log \o r2.log)

\* _or, running other from where self failed.
_or_no_rewind(self, other, toks, s, active) ==
    LET r1 == run(self, toks, s, active)
    IN  IF r1.k # "NoParseError" THEN r1
        ELSE LET r2 == run(other, toks, r1.s, active)
             IN  [r2 EXCEPT !.log = r1.log \o r2.log]

\* _or, running other from the state self was given.
_or_forgets_max(self, other, toks, s, active) ==
    LET r1 == run(self, toks, s, active)
    IN  IF r1.k # "NoParseError" THEN r1
        ELSE LET r2 == run(other, toks, s, active)
             IN  [r2 EXCEPT !.log = r1.log \o r2.log]

\* Parser.__or__._or
_or(self, other, toks, s, active) ==
    LET r1 == run(self, toks, s, active)
    IN  IF r1.k # "NoParseError" THEN r1
        ELSE LET r2 == run(other, toks, State(s.pos, r1.s.max), active)
             IN  [r2 EXCEPT !.log = r1.log \o r2.log]

\* Parser.__rshift__._shift
_shift(self, f, toks, s, active) ==
    LET r == run(self, toks, s, active)
    IN  IF r.k # "ok" THEN r ELSE Ok(apply(f, r.v), r.s, r.log)

\* Parser.bind._bind
_bind(self, f, toks, s, active) ==
    LET r == run(self, toks, s, active)
    IN  IF r.k # "ok" THEN r
        ELSE LET r2 == run(apply(f, r.v), toks, r.s, active)
             IN  [r2 EXCEPT !.log = r.log \o r2.log]

\* _many_except, returning the state of the failing attempt as it is.
_many_except_no_rewind(res, s, e, log) == Ok(list(res), e.s, log)

\* many._many, its except clause: the values collected, the cursor of the
\* last success and the max the failing attempt reached.
_many_except(res, s, e, log) == Ok(list(res), State(s.pos, e.s.max), log)

\* many._many: the while loop, with res and s as they stand before an
\* iteration.  An iteration that succeeds and returns the state it was
\* given is followed by the same iteration for ever: the loop hangs.
RECURSIVE many_loop(_, _, _, _, _, _)
many_loop(p, toks, s, res, log, active) ==
    LET r == run(p, toks, s, active)
    IN  IF r.k = "ok"
        THEN IF r.s = s THEN Raise("hang", s, log \o r.log)
             ELSE many_loop(p, toks, r.s, Append(res, r.v), log \o r.log, active)
        ELSE IF r.k = "NoParseError"
             THEN _many_except(res, s, r, log \o r.log)
             ELSE [r EXCEPT !.log = log \o r.log]

_many(p, toks, s, active) == many_loop(p, toks, s, <<>>, <<>>, active)

\* oneplus._oneplus
_oneplus(p, toks, s, active) ==
    LET r1 == run(p, toks, s, active)
    IN  IF r1.k # "ok" THEN r1
        ELSE LET r2 == run(many(p), toks, r1.s, active)
             IN  IF r2.k # "ok" THEN [r2 EXCEPT !.log = r1.log \o r2.log]
                 ELSE Ok(list(<<r1.v>> \o r2.v[2]), r2.s, r1.log \o r2.log)

\* lazy_getter, as if the parsers built earlier had kept the run the
\* declaration had when they were built.
stale_getter(toks, s, active) == Raise("NotImplementedError", s, <<>>)

\* The run attribute of a forward declaration: the lazy getter that
\* define() installed looks the wrapped parser's run up when it is called.
\* Before define() that is forward_decl's f, which raises
\* NotImplementedError.  A call from a state in which the same declaration
\* is already running can only repeat itself: the recursion ends in
\* RecursionError.
lazy_getter(toks, s, active) ==
    IF binding = Undefined THEN Raise("NotImplementedError", s, <<>>)
    ELSE IF s \in active THEN Raise("RecursionError", s, <<>>)
    ELSE run(binding, toks, s, active \cup {s})

\* Parser.run, as define() sets it up.
run(p, toks, s, active) ==
    LET r == CASE p[1] = "some" -> _some(p[2], toks, s)
               [] p[1] = "pure" -> _pure(p[2], s)
               [] p[1] = "finished" -> _finished(toks, s)
               [] p[1] = "add" -> _add(p[2], p[3], toks, s, active)
               [] p[1] = "or" -> _or(p[2], p[3], toks, s, active)
               [] p[1] = "rshift" -> _shift(p[2], p[3], toks, s, active)
               [] p[1] = "bind" -> _bind(p[2], p[3], toks, s, active)
               [] p[1] = "many" -> _many(p[2], toks, s, active)
               [] p[1] = "oneplus" -> _oneplus(p[2], toks, s, active)
               [] p[1] = "forward_decl" -> lazy_getter(toks, s, active)
    IN  [r EXCEPT !.log = <<<<"run", p, s>>>> \o r.log
                          \o <<<<IF r.k = "ok" THEN "ok" ELSE "raise", p, r.s>>>>]

NoState == State(-1, -1)

\* Parser.parse
parse(p, toks) ==
    LET r == run(p, toks, State(0, 0), {})
    IN  IF r.k = "ok" THEN [r EXCEPT !.s = NoState]
        ELSE IF r.k = "NoParseError"
             THEN LET max == r.s.max
                      tok == IF Len(toks) > max THEN toks[max + 1] ELSE EOF
                  IN  [r EXCEPT !.msg = Append(r.msg, tok)]
             ELSE r

(***************************************************************************)
(* The grammars under test.                                                *)
(***************************************************************************)
X == a(<<"tok", "x">>)
Y == a(<<"tok", "y">>)
ANY == some(Tok)

\* p1 + p2 + ... + pn as Python groups it, ((p1 + p2) + ...) + pn.
ChainAtoms == {ANY, skip(ANY), X, many(X)}

RECURSIVE Chains(_)
Chains(n) ==
    IF n = 1 THEN ChainAtoms
    ELSE {add(c, e) : c \in Chains(n - 1), e \in ChainAtoms}

\* p1 + (p2 + p3)
RightNested == {add(p1, add(p2, p3)) : p1, p2, p3 \in {X, ANY}}

Operands == {X, Y, add(X, Y), add(X, X), many(X), finished, pure(None)}

Repeated ==
    {X, ANY, add(X, Y), or(X, Y), or(add(X, Y), X), oneplus(X),
     pure(None), maybe(X), many(X), finished}

\* The composites built from a forward declaration before it is defined.
Forward ==
    {forward_decl, add(forward_decl, Y), add(Y, forward_decl),
     or(forward_decl, Y), or(Y, forward_decl),
     rshift(forward_decl, "singleton"), bind(forward_decl, "a"),
     many(forward_decl), maybe(forward_decl), skip(forward_decl),
     oneplus(forward_decl), add(skip(forward_decl), finished)}

\* What define() binds the forward declaration to.
Definitions ==
    {X, add(X, forward_decl), or(add(X, forward_decl), Y),
     add(forward_decl, X), maybe(add(X, forward_decl)), many(X)}

Grammars ==
    {some(pred) : pred \in SUBSET Tok}
    \cup {finished, pure(None)}
    \cup UNION {Chains(n) : n \in 2..MaxChain}
    \cup RightNested
    \cup {or(p1, p2) : p1, p2 \in Operands}
    \cup {many(p) : p \in Repeated}
    \cup {add(many(add(X, Y)), finished), add(many(X), Y), oneplus(add(X, Y)),
          bind(ANY, "a"), rshift(X, "singleton")}
    \cup Forward

RECURSIVE Mentions(_)
Mentions(p) ==
    CASE p[1] \in {"add", "or"} -> Mentions(p[2]) \/ Mentions(p[3])
      [] p[1] \in {"rshift", "bind", "many", "oneplus"} -> Mentions(p[2])
      [] p[1] = "forward_decl" -> TRUE
      [] OTHER -> FALSE

\* The states a parser is run from: a cursor inside the tokens or at their
\* end, and a max no smaller.
States(toks) ==
    UNION {{State(p, m) : m \in p..Len(toks)} : p \in 0..Len(toks)}

NoOutcome == [call |-> "none", s0 |-> NoState, r |-> Raise("none", NoState, <<>>)]

LexIdle ==
    /\ string = <<>>
    /\ specs = <<>>
    /\ i = 0
    /\ line = 1
    /\ pos = 0
    /\ out = <<>>
    /\ lpc = "idle"
    /\ lerr = NoError

ParInit ==
    /\ tokens \in TokenSeqs(MaxLen)
    /\ grammar \in Grammars
    /\ binding = Undefined
    /\ outcome = NoOutcome
    /\ LexIdle

\* grammar.run(tokens, s)
Run(s) ==
    /\ outcome' = [call |-> "run", s0 |-> s, r |-> run(grammar, tokens, s, {})]
    /\ UNCHANGED <<tokens, grammar, binding, lexvars>>

\* grammar.parse(tokens)
Parse ==
    /\ outcome' = [call |-> "parse", s0 |-> State(0, 0), r |-> parse(grammar, tokens)]
    /\ UNCHANGED <<tokens, grammar, binding, lexvars>>

\* Parser.define: the forward declaration's run becomes a lazy getter of
\* parser's run.
define(parser) == binding' = parser

Define(q) ==
    /\ Mentions(grammar)
    /\ define(q)
    /\ outcome' = NoOutcome
    /\ UNCHANGED <<tokens, grammar, lexvars>>

ParNext ==
    \/ \E s \in States(tokens) : Run(s)
    \/ Parse
    \/ \E q \in Definitions : Define(q)

SpecParser == ParInit /\ [][ParNext]_vars

(***************************************************************************)
(*                      THE CLAIMS ABOUT THE LEXER                         *)
(***************************************************************************)

\* Where the k-th yielded token starts in the text (0-based offset).
RECURSIVE Offset(_)
Offset(k) == IF k = 1 THEN 0 ELSE Offset(k - 1) + Len(out[k - 1].value)

\* The 1-based index of the last line break among the first off characters
\* of str, or 0.
LastBreak(str, off) ==
    LET at == {k \in 1..off : str[k] = NL}
    IN  IF at = {} THEN 0 ELSE CHOOSE k \in at : \A m \in at : m <= k

\* str.splitlines()[ln - 1]: the characters of line ln, without its break.
SourceLine(str, ln) ==
    LET starts == {k \in 0..Len(str) : count(SubSeq(str, 1, k), NL) = ln - 1}
        from == CHOOSE k \in starts : \A m \in starts : k <= m
        rest == SubSeq(str, from + 1, Len(str))
        stop == {k \in DOMAIN rest : rest[k] = NL}
    IN  IF stop = {} THEN rest
        ELSE SubSeq(rest, 1, (CHOOSE k \in stop : \A m \in stop : k <= m) - 1)

\* C1: when no spec matches at the current position, tokenizing fails with
\* a LexerError that carries (line, column + 1) of that position and the
\* text of that source line; no other kind of error is raised.
C1_NoMatchRaisesLexerError ==
    lpc = "raised" =>
        /\ lerr.kind = "LexerError"
        /\ lerr.place = <<line, pos + 1>>
        /\ lerr.msg = SourceLine(string, line)

\* C8: the scan terminates because every step of it either yields a token
\* that advances the cursor, or ends the scan at the end of the text, or
\* ends it with a lex error.
C8_EveryStepAdvancesOrEnds ==
    [][lpc = "scan" =>
          \/ lpc' = "scan" /\ i' > i
          \/ lpc' = "done" /\ i >= Len(string)
          \/ lpc' = "raised" /\ lerr'.kind = "LexerError"]_vars

\* C10: after a successful tokenization every token's span agrees with its
\* place in the text: it starts at (L, C + 1), L being 1 plus the line
\* breaks before it and C the characters since the last of them; it ends at
\* (L', C'), L' being L plus the line breaks in it and C' either C plus its
\* length or, when it holds a line break, the characters after its last
\* one; and the next token is scanned from (L', C').
C10_SpansAgreeWithText ==
    lpc = "done" =>
        \A k \in DOMAIN out :
            LET t == out[k]
                off == Offset(k)
                L == 1 + count(SubSeq(string, 1, off), NL)
                C == off - LastBreak(string, off)
                inside == {m \in DOMAIN t.value : t.value[m] = NL}
                L2 == L + Cardinality(inside)
                C2 == IF inside = {} THEN C + Len(t.value)
                      ELSE Cardinality({m \in DOMAIN t.value :
                                          \A b \in inside : m > b})
            IN  /\ t.value = SubSeq(string, off + 1, off + Len(t.value))
                /\ t.start = <<L, C + 1>>
                /\ t.end = <<L2, C2>>
                /\ IF k < Len(out)
                   THEN out[k + 1].start = <<L2, C2 + 1>>
                   ELSE line = L2 /\ pos = C2

\* A successful tokenization in which a token that spans a line break and
\* ends past it is followed by another token.
C10_Witness ==
    /\ lpc = "done"
    /\ \E k \in DOMAIN out :
           /\ k < Len(out)
           /\ count(out[k].value, NL) > 0
           /\ out[k].end[2] > 0

(***************************************************************************)
(*                   THE CLAIMS ABOUT THE COMBINATORS                      *)
(***************************************************************************)
Called == outcome.call # "none"
R == outcome.r
S0 == outcome.s0

\* C6: some(f) run from s succeeds iff s.pos is inside the tokens and f
\* holds on the token there, and then returns that token with the state
\* (s.pos + 1, max(s.max, s.pos + 1)); at the end of the input it fails
\* with 'no tokens left', on a rejected token with 'unexpected token', both
\* carrying s unchanged; and some(f).parse([t]) returns t iff f(t).
C6_SomeConsumesOneAcceptedToken ==
    (Called /\ grammar[1] = "some") =>
        LET f == grammar[2]
            inside == S0.pos < Len(tokens)
            accepted == inside /\ tokens[S0.pos + 1] \in f
        IN  /\ R.k = "ok" <=> accepted
            /\ R.k \in {"ok", "NoParseError"}
            /\ outcome.call = "run" =>
                 /\ accepted =>
                      /\ R.v = tokens[S0.pos + 1]
                      /\ R.s = State(S0.pos + 1,
                                     IF S0.max > S0.pos + 1 THEN S0.max
                                     ELSE S0.pos + 1)
                 /\ ~inside =>
                      R.msg = <<"no tokens left in the stream">> /\ R.s = S0
                 /\ (inside /\ ~accepted) =>
                      R.msg = <<"got unexpected token">> /\ R.s = S0
            /\ (outcome.call = "parse" /\ Len(tokens) = 1) =>
                 ((R.k = "ok" /\ R.v = tokens[1]) <=> tokens[1] \in f)

\* some(f) has been run from a state whose max lies beyond the next
\* position and has accepted the token.
C6_Witness ==
    /\ outcome.call = "run"
    /\ grammar[1] = "some"
    /\ R.k = "ok"
    /\ S0.max > S0.pos + 1
    /\ R.s.max = S0.max

\* skip(p)
Skipped(e) == e[1] = "rshift" /\ e[3] = "_Ignored"

\* A value that is neither a sequence built by + nor the ignored marker.
Plain(v) == v[1] \notin {"_Tuple", "_Ignored"}

\* The operands p1, ..., pn of p1 + p2 + ... + pn, grouped from the left.
RECURSIVE Elements(_)
Elements(g) == IF g[1] = "add" THEN Append(Elements(g[2]), g[3]) ELSE <<g>>

\* The runs of the parsers es one after the other from s on, each from the
\* state the one before returned, up to and including the first that does
\* not succeed.
RECURSIVE Thread(_, _)
Thread(es, s) ==
    IF es = <<>> THEN <<>>
    ELSE LET r == run(Head(es), tokens, s, {})
         IN  IF r.k = "ok" THEN <<r>> \o Thread(Tail(es), r.s) ELSE <<r>>

\* The input from s on is accepted by the parsers es in order.
AcceptedInOrder(es, s) ==
    LET rs == Thread(es, s)
    IN  Len(rs) = Len(es) /\ rs[Len(rs)].k = "ok"

\* The values of the parsers of es that are not skipped, in order.
Kept(es, s) ==
    LET rs == Thread(es, s)
        idx == SelectSeq([k \in DOMAIN es |-> k], LAMBDA k : ~Skipped(es[k]))
    IN  [j \in DOMAIN idx |-> rs[idx[j]].v]

\* C2: (p1 + p2) + p3 and p1 + (p2 + p3), applied to three tokens that
\* p1, p2, p3 accept in order, return the identical flat sequence
\* (v1, v2, v3), never a nested pair.
C2_SequencingIsAssociative ==
    (Called /\ grammar \in RightNested
       /\ AcceptedInOrder(<<grammar[2], grammar[3][2], grammar[3][3]>>, S0)) =>
        LET left == run(add(add(grammar[2], grammar[3][2]), grammar[3][3]),
                        tokens, S0, {})
        IN  /\ R.k = "ok"
            /\ R.v = left.v
            /\ R.v = _Tuple(SubSeq(tokens, S0.pos + 1, S0.pos + 3))

\* C3: a chain p1 + p2 + ... + pn (n >= 2) in which any of the pi are
\* wrapped in skip, on an input every pi accepts in order, returns the
\* values of the pi that are not skipped (each a single value: a token, a
\* list, None): a flat sequence of them when they are two or more, the lone
\* value itself when there is one, the ignored marker when there is none.
C3_ChainKeepsUnskippedValues ==
    (Called /\ grammar[1] = "add") =>
        LET es == Elements(grammar)
            kept == Kept(es, S0)
        IN  (AcceptedInOrder(es, S0) /\ \A j \in DOMAIN kept : Plain(kept[j])) =>
                /\ R.k = "ok"
                /\ R.v = IF Len(kept) >= 2 THEN _Tuple(kept)
                         ELSE IF Len(kept) = 1 THEN kept[1]
                         ELSE _Ignored(<<>>)

\* x + skip(,) + y has returned a flat pair.
C3_Witness ==
    /\ Called
    /\ grammar[1] = "add"
    /\ Len(Elements(grammar)) = 3
    /\ Skipped(Elements(grammar)[2])
    /\ ~Skipped(Elements(grammar)[1])
    /\ ~Skipped(Elements(grammar)[3])
    /\ R.k = "ok"
    /\ S0.pos + 3 <= Len(tokens)
    /\ R.v = _Tuple(<<tokens[S0.pos + 1], tokens[S0.pos + 3]>>)

\* What r returned or raised, the log of how it got there left out.
Result(r) == <<r.k, r.v, r.s, r.msg>>

\* The calls made inside the outermost one, and how each ended.
Inner(log) == SubSeq(log, 2, Len(log) - 1)

\* C4: p1 | p2 run from s: if p1 succeeds, its value and state are
\* returned and p2 is never run; if p1 fails, p2 is run from the cursor
\* s.pos with max the max p1's failure reached, and what p2 returns or
\* raises is the result: p2's failure when both fail.
C4_ChoiceIsLeftBiasedAndBacktracks ==
    (outcome.call = "run" /\ grammar[1] = "or") =>
        LET r1 == run(grammar[2], tokens, S0, {})
            s2 == State(S0.pos, r1.s.max)
            r2 == run(grammar[3], tokens, s2, {})
        IN  /\ r1.k = "ok" =>
                 /\ Result(R) = Result(r1)
                 /\ Inner(R.log) = r1.log
            /\ r1.k = "NoParseError" =>
                 /\ Result(R) = Result(r2)
                 /\ Inner(R.log) = r1.log \o r2.log
                 /\ R.log[Len(r1.log) + 2] = <<"run", grammar[3], s2>>

\* p1 has consumed a token and failed, and p2 has succeeded from the
\* original position.
C4_Witness ==
    /\ outcome.call = "run"
    /\ grammar[1] = "or"
    /\ run(grammar[2], tokens, S0, {}).k = "NoParseError"
    /\ run(grammar[2], tokens, S0, {}).s.pos > S0.pos
    /\ R.k = "ok"
    /\ R.s.pos = S0.pos + 1

\* P ends every run in a success or a parse failure, and consumes at least
\* one token on each success.
Consuming(P) ==
    \A s \in States(tokens) :
        LET r == run(P, tokens, s, {})
        IN  /\ r.k \in {"ok", "NoParseError"}
            /\ r.k = "ok" => r.s.pos > s.pos

\* The successive runs of P from s on, each from the state the one before
\* returned, up to and including the first that fails.
RECURSIVE Successive(_, _)
Successive(P, s) ==
    LET r == run(P, tokens, s, {})
    IN  IF r.k = "ok" THEN <<r>> \o Successive(P, r.s) ELSE <<r>>

\* C5: for P that consumes at least one token on each success, many(P)
\* terminates and never fails: it returns the list of the values of the
\* successive successful runs of P in order, leaves the cursor after the
\* last successful run and sets max to the max the failing attempt reached.
C5_ManyCollectsUntilFailure ==
    (outcome.call = "run" /\ grammar[1] = "many" /\ Consuming(grammar[2])) =>
        LET rs == Successive(grammar[2], S0)
            n == Len(rs) - 1
            last == IF n = 0 THEN S0 ELSE rs[n].s
        IN  /\ R.k = "ok"
            /\ R.v = list([j \in 1..n |-> rs[j].v])
            /\ R.s = State(last.pos, rs[n + 1].s.max)

\* many(P) has collected a value and given back the tokens its failing
\* last attempt consumed.
C5_Witness ==
    /\ outcome.call = "run"
    /\ grammar[1] = "many"
    /\ Consuming(grammar[2])
    /\ R.k = "ok"
    /\ Len(R.v[2]) >= 1
    /\ R.s.max > R.s.pos

\* The furthest cursor position among the states of the log.
Furthest(log) ==
    CHOOSE m \in {log[j][3].pos : j \in DOMAIN log} :
        \A j \in DOMAIN log : log[j][3].pos <= m

\* C7: within one parse() call max never decreases along the states
\* threaded through the combinators, the branches choice abandoned and
\* the failing last attempt of many included; so when parse() fails, the
\* max its failure carries is the furthest cursor position any attempted
\* branch reached, and the message names the token at index max, or the
\* end-of-input sentinel when max >= the number of tokens.
C7_MaxNeverDecreases ==
    outcome.call = "parse" =>
        /\ \A j, k \in DOMAIN R.log :
               j < k => R.log[j][3].max <= R.log[k][3].max
        /\ R.k = "NoParseError" =>
               /\ R.s.max = Furthest(R.log)
               /\ Len(R.msg) = 2
               /\ R.msg[2] = IF R.s.max < Len(tokens)
                             THEN tokens[R.s.max + 1] ELSE EOF

\* parse() has failed in a branch tried after one that reached further,
\* and named a token of the input.
C7_Witness ==
    /\ outcome.call = "parse"
    /\ grammar[1] = "or"
    /\ R.k = "NoParseError"
    /\ R.s.max > R.s.pos
    /\ R.msg[2] \in Tok

\* p with the parser the forward declaration is bound to in the place of
\* each reference to the declaration.
RECURSIVE BuiltFrom(_)
BuiltFrom(p) ==
    CASE p[1] \in {"add", "or"} -> <<p[1], BuiltFrom(p[2]), BuiltFrom(p[3])>>
      [] p[1] \in {"rshift", "bind"} -> <<p[1], BuiltFrom(p[2]), p[3]>>
      [] p[1] \in {"many", "oneplus"} -> <<p[1], BuiltFrom(p[2])>>
      [] p[1] = "forward_decl" -> binding
      [] OTHER -> p

\* C9: run before define() has bound it, a forward declaration fails at
\* once; after define() has bound it to q, every parser built from the
\* declaration before that behaves exactly as if it had been built from q,
\* also when q refers back to the declaration.
C9_ForwardDeclarationIsBoundLate ==
    (Called /\ Mentions(grammar)) =>
        IF binding = Undefined
        THEN /\ (\E j \in DOMAIN R.log : R.log[j] = <<"run", forward_decl, R.log[j][3]>>)
                  => R.k = "NotImplementedError"
             /\ grammar = forward_decl => R.log = <<<<"run", grammar, S0>>,
                                                     <<"raise", grammar, S0>>>>
        ELSE Result(R) = Result(IF outcome.call = "run"
                                THEN run(BuiltFrom(grammar), tokens, S0, {})
                                ELSE parse(BuiltFrom(grammar), tokens))

\* A parser built from the declaration has succeeded after define() bound
\* the declaration to a parser that refers back to it, through more than
\* one level of the recursion.
C9_Witness ==
    /\ Called
    /\ grammar # forward_decl
    /\ Mentions(grammar)
    /\ binding # Undefined
    /\ Mentions(binding)
    /\ R.k = "ok"
    /\ Cardinality({j \in DOMAIN R.log : R.log[j][1] = "run"
                                          /\ R.log[j][2] = forward_decl}) >= 2

=============================================================================
